---- MODULE Spec2Model ----
(***************************************************************************)
(* Model of the website-builder server: the relational schema              *)
(* (shared/schema.ts, kept as src/unnamed/part_000), the data-access layer *)
(* (src/server/storage.ts) and the route layer (src/routes.ts).            *)
(*                                                                         *)
(* Every storage call is one atomic SQL statement, so every action below   *)
(* is one statement together with the synchronous code of the handler      *)
(* around it.  Handlers that make two storage calls (PUT /api/config and   *)
(* the seeding routine) are split at their awaits.                         *)
(*                                                                         *)
(* Columns are kept per kind: each table keeps its keys, its server-set    *)
(* columns and one column of every kind the code treats differently        *)
(* (required, nullable, defaulted); the remaining text columns of a table  *)
(* behave exactly as the kept column of the same kind.                     *)
(***************************************************************************)
EXTENDS Integers, Sequences, FiniteSets, TLC

\* ------------------------------------------------------------- bounds
\* Concurrent PUT /api/config requests in flight.
NumClients == 1
\* Rows a run may create through POST in the project and product tables together.
MaxCreates == 2
\* Rows a run may create through POST in the message and reply tables together.
MaxMessages == 3
\* Last value of the database clock.
MaxClock == 1
\* Steps of a run of the whole system (Spec); the per-area specifications are
\* bounded by the caps above instead.
MaxSteps == 2

\* export const storage = new DatabaseStorage(): one instance, whose
\* constructor starts the seeding routine once.
NumSeeders == 1

Clients == 1..NumClients
Seeders == 1..NumSeeders

\* ------------------------------------------------------------- values
\* SQL NULL.
NULL == "NULL"
\* A key that is not present in a request body (JavaScript undefined).
Absent == "<absent>"
\* A value that is not a string where the schema wants one.
NotString == "<not-a-string>"
\* Serial columns start at 1: 0 stands for "no id key in the object".
NoId == 0
\* Timestamps of the model are >= 0: NoStamp stands for "no createdAt key".
NoStamp == 0 - 1
\* What a client may send for the server-assigned columns.
ClientId == MaxCreates + MaxMessages + 4
ClientStamp == MaxClock + 5

IsString(v) == v # Absent /\ v # NotString /\ v # NULL
\* z.string().optional(): the key may be missing, a present value is a string.
IsOptionalString(v) == v = Absent \/ IsString(v)

Range(s) == {s[i] : i \in 1..Len(s)}
Ids(table) == {table[i].id : i \in 1..Len(table)}
Select(table, id) == SelectSeq(table, LAMBDA r : r.id = id)
Remove(table, id) == SelectSeq(table, LAMBDA r : r.id # id)

VARIABLES
    users,            \* table users
    siteConfig,       \* table site_config
    projects,         \* table projects
    products,         \* table products
    messages,         \* table messages
    messageReplies,   \* table message_replies
    nextId,           \* next value of each table's serial sequence
    issued,           \* history: every id ever stored in each table
    now,              \* the database clock (now())
    put,              \* the PUT /api/config requests in flight
    seed,             \* the seeding routine of each server process
    res,              \* the last HTTP response sent
    steps             \* steps taken (bounds Spec only)

tables == <<users, siteConfig, projects, products, messages, messageReplies>>
vars == <<users, siteConfig, projects, products, messages, messageReplies,
          nextId, issued, now, put, seed, res, steps>>

TableNames == {"users", "siteConfig", "projects", "products", "messages", "messageReplies"}

Response(route, status, body) == [route |-> route, status |-> status, body |-> body]

\* ------------------------------------------------------------- schema
\* pgTable("site_config"): id serial, companyName notNull, heroTitle nullable,
\* aboutTitle with a default.
AboutTitleDefault == "Over Ons"

SiteConfigRow(v, id) ==
    [id          |-> id,
     companyName |-> v.companyName,
     heroTitle   |-> IF v.heroTitle = Absent THEN NULL ELSE v.heroTitle,
     aboutTitle  |-> IF v.aboutTitle = Absent THEN AboutTitleDefault ELSE v.aboutTitle]

\* insertSiteConfigSchema: the id key is omitted (zod strips keys the schema
\* does not have), companyName is required, the other fields are optional strings.
InsertSiteConfigStrip(raw) == [raw EXCEPT !.id = NoId]

InsertSiteConfigValid(raw) ==
    /\ IsString(raw.companyName)
    /\ IsOptionalString(raw.heroTitle)
    /\ IsOptionalString(raw.aboutTitle)

\* pgTable("projects") / pgTable("products"): id serial, a required text column
\* (title), a nullable one (imageUrl), createdAt defaultNow().
CatalogRow(v, id, stamp) ==
    [id        |-> id,
     title     |-> v.title,
     imageUrl  |-> IF v.imageUrl = Absent THEN NULL ELSE v.imageUrl,
     createdAt |-> stamp]

\* insertProjectSchema / insertProductSchema: id and createdAt are omitted, the
\* title is a required string, imageUrl an optional one.
\* Faulty variant: a schema that omits nothing.
InsertCatalogKeep(raw) == raw

InsertCatalogStrip(raw) == [raw EXCEPT !.id = NoId, !.createdAt = NoStamp]

InsertCatalogValid(raw) == IsString(raw.title) /\ IsOptionalString(raw.imageUrl)

\* insertProjectSchema.partial(): every field optional.
PartialCatalogValid(raw) == IsOptionalString(raw.title) /\ IsOptionalString(raw.imageUrl)

\* pgTable("messages"): id serial, a required text column (message), isRead
\* default false, createdAt defaultNow().
MessageRow(v, id, stamp) ==
    [id        |-> id,
     message   |-> v.message,
     isRead    |-> IF v.isRead = Absent THEN FALSE ELSE v.isRead = "true",
     createdAt |-> stamp]

\* insertMessageSchema: id, isRead and createdAt are omitted.
InsertMessageStrip(raw) == [raw EXCEPT !.id = NoId, !.isRead = Absent, !.createdAt = NoStamp]

InsertMessageValid(raw) == IsString(raw.message)

\* pgTable("message_replies"): id serial, messageId references messages.id,
\* reply required, isFromAdmin default true, createdAt defaultNow().
MessageReplyRow(v, id, stamp) ==
    [id          |-> id,
     messageId   |-> v.messageId,
     reply       |-> v.reply,
     isFromAdmin |-> IF v.isFromAdmin = Absent THEN TRUE ELSE v.isFromAdmin = "true",
     createdAt   |-> stamp]

\* insertMessageReplySchema: id and createdAt are omitted.
InsertMessageReplyStrip(raw) == [raw EXCEPT !.id = NoId, !.createdAt = NoStamp]

InsertMessageReplyValid(raw) == IsString(raw.reply)

\* pgTable("users"): id serial, username unique.
UserRow(v, id) == [id |-> id, username |-> v.username, password |-> v.password]

\* ------------------------------------------------------------- statements
\* db.insert(t).values(v): a key of v that is present is written as given; a
\* missing id takes the sequence's next value, a missing createdAt takes now().
\* A duplicate primary key is an error.
InsertId(v, t) == IF v.id # NoId THEN v.id ELSE nextId[t]

InsertStamp(v) == IF v.createdAt # NoStamp THEN v.createdAt ELSE now

InsertFails(table, v, t) == InsertId(v, t) \in Ids(table)

\* The sequence and the history after a statement that left `after` in table t.
Sequences(v, t, after) ==
    /\ nextId' = [nextId EXCEPT ![t] = IF v.id # NoId THEN @ ELSE @ + 1]
    /\ issued' = [issued EXCEPT ![t] = @ \cup Ids(after)]

\* db.update(t).set(v).where(eq(t.id, id)): the keys of v that are present
\* (drizzle drops undefined values) overwrite the row's columns.
\* Faulty variant: .set(v) as a replacement of the whole row, where a missing
\* key clears its column.
SetSiteConfigOverwrite(r, v) == SiteConfigRow(v, r.id)

SetSiteConfig(r, v) ==
    [id          |-> IF v.id # NoId THEN v.id ELSE r.id,
     companyName |-> IF v.companyName = Absent THEN r.companyName ELSE v.companyName,
     heroTitle   |-> IF v.heroTitle = Absent THEN r.heroTitle ELSE v.heroTitle,
     aboutTitle  |-> IF v.aboutTitle = Absent THEN r.aboutTitle ELSE v.aboutTitle]

\* Faulty variant: an update that stamps the row again.
SetCatalogStamped(r, v) ==
    [id        |-> IF v.id # NoId THEN v.id ELSE r.id,
     title     |-> IF v.title = Absent THEN r.title ELSE v.title,
     imageUrl  |-> IF v.imageUrl = Absent THEN r.imageUrl ELSE v.imageUrl,
     createdAt |-> now]

SetCatalog(r, v) ==
    [id        |-> IF v.id # NoId THEN v.id ELSE r.id,
     title     |-> IF v.title = Absent THEN r.title ELSE v.title,
     imageUrl  |-> IF v.imageUrl = Absent THEN r.imageUrl ELSE v.imageUrl,
     createdAt |-> IF v.createdAt # NoStamp THEN v.createdAt ELSE r.createdAt]

\* .set(v) with no key present is an error ("No values to set").
NothingToSet(v) ==
    v.id = NoId /\ v.createdAt = NoStamp /\ v.title = Absent /\ v.imageUrl = Absent

\* An update writes a new version of the row; where it lies among the rows a
\* scan returns is not fixed: here it keeps its place or goes last.
\* `set` maps every row of the table to the row .set(v) makes of it.
UpdateWhere(table, id, set, moved) ==
    IF moved
    THEN Remove(table, id) \o [i \in 1..Len(Select(table, id)) |-> set[Select(table, id)[i]]]
    ELSE [i \in 1..Len(table) |-> IF table[i].id = id THEN set[table[i]] ELSE table[i]]

\* Where the new version of the row `id` may lie: a statement that matches no
\* row writes none.
Moves(table, id) == IF id \in Ids(table) THEN BOOLEAN ELSE {FALSE}

\* .orderBy(t.createdAt): ascending; the statement names no second key, so
\* rows with equal createdAt come as the scan returns them.
RECURSIVE OrderByCreatedAt(_)
OrderByCreatedAt(table) ==
    IF table = <<>> THEN <<>>
    ELSE LET r == table[Len(table)]
             s == OrderByCreatedAt(SubSeq(table, 1, Len(table) - 1))
         IN SelectSeq(s, LAMBDA x : x.createdAt <= r.createdAt) \o <<r>>
            \o SelectSeq(s, LAMBDA x : x.createdAt > r.createdAt)

\* ------------------------------------------------------------- site config
\* getSiteConfig: select ... limit 1 with no order: any row of the table, or
\* undefined when it is empty.  The results the statement may give.
getSiteConfig ==
    IF siteConfig = <<>> THEN {<<>>}
    ELSE {<<siteConfig[i]>> : i \in 1..Len(siteConfig)}

FoundId(found) == IF found = <<>> THEN NoId ELSE found[1].id

\* updateSiteConfig after its getSiteConfig returned `existing`: update that
\* row by id, or insert.  The table it leaves.
updateSiteConfig(config, existing) ==
    IF existing # NoId
    THEN [i \in 1..Len(siteConfig) |->
            IF siteConfig[i].id = existing
            THEN SetSiteConfig(siteConfig[i], config) ELSE siteConfig[i]]
    ELSE Append(siteConfig, SiteConfigRow(config, InsertId(config, "siteConfig")))

\* ... and the row it returns (.returning()).
updateSiteConfigReturns(config, existing) ==
    IF existing # NoId
    THEN SelectSeq(updateSiteConfig(config, existing),
                   LAMBDA r : r.id = InsertId([config EXCEPT !.id = IF @ = NoId THEN existing ELSE @], "siteConfig"))
    ELSE <<SiteConfigRow(config, InsertId(config, "siteConfig"))>>

updateSiteConfigFails(config, existing) ==
    existing = NoId /\ InsertFails(siteConfig, config, "siteConfig")

\* The request bodies of PUT /api/config: a full configuration, a partial one
\* that also carries an id, one without the required companyName, one with a
\* value of the wrong type.
ConfigBodies ==
    { [id |-> NoId,     companyName |-> "A",    heroTitle |-> "A",       aboutTitle |-> Absent],
      [id |-> ClientId, companyName |-> "B",    heroTitle |-> Absent,    aboutTitle |-> "B"],
      [id |-> NoId,     companyName |-> Absent, heroTitle |-> "A",       aboutTitle |-> Absent],
      [id |-> NoId,     companyName |-> "A",    heroTitle |-> NotString, aboutTitle |-> Absent] }

NoConfig == [id |-> NoId, companyName |-> Absent, heroTitle |-> Absent, aboutTitle |-> Absent]

Idle == [pc |-> "idle", body |-> NoConfig, existing |-> NoId]

\* Faulty variant: a read that creates the default row when there is none.
GetConfigLazy(up, found) ==
    /\ found \in getSiteConfig
    /\ siteConfig' = IF up /\ siteConfig = <<>>
                     THEN <<[id |-> nextId["siteConfig"], companyName |-> "Voorbeeld Bedrijf BV",
                             heroTitle |-> NULL, aboutTitle |-> AboutTitleDefault]>>
                     ELSE siteConfig
    /\ nextId' = [nextId EXCEPT !["siteConfig"] = IF up /\ siteConfig = <<>> THEN @ + 1 ELSE @]
    /\ issued' = [issued EXCEPT !["siteConfig"] = @ \cup Ids(siteConfig')]
    /\ res' = IF up THEN Response("GET /config", 200, siteConfig')
              ELSE Response("GET /config", 500, <<>>)
    /\ UNCHANGED <<users, projects, products, messages, messageReplies, now, put, seed>>

\* GET /api/config: one getSiteConfig; undefined is sent as an empty body.
GetConfig(up, found) ==
    /\ found \in getSiteConfig
    /\ res' = IF up THEN Response("GET /config", 200, found)
              ELSE Response("GET /config", 500, <<>>)
    /\ UNCHANGED <<tables, nextId, issued, now, put, seed>>

\* A new request takes the lowest free slot of `put`.
\* PUT /api/config up to the await of getSiteConfig inside updateSiteConfig:
\* the body is parsed, then the select runs.  The catch answers 400.
PutConfigGet(c, raw, up, found) ==
    /\ put[c].pc = "idle"
    /\ \A d \in Clients : d < c => put[d].pc # "idle"
    /\ found \in getSiteConfig
    /\ IF InsertSiteConfigValid(raw) /\ up
       THEN /\ put' = [put EXCEPT ![c] = [pc |-> "write",
                                          body |-> InsertSiteConfigStrip(raw),
                                          existing |-> FoundId(found)]]
            /\ UNCHANGED res
       ELSE /\ res' = Response("PUT /config", 400, <<>>)
            /\ UNCHANGED put
    /\ UNCHANGED <<tables, nextId, issued, now, seed>>

\* PUT /api/config from there: the update or the insert, then the response.
PutConfigWrite(c, up) ==
    /\ put[c].pc = "write"
    /\ put' = [put EXCEPT ![c] = Idle]
    /\ IF up /\ ~updateSiteConfigFails(put[c].body, put[c].existing)
       THEN /\ siteConfig' = updateSiteConfig(put[c].body, put[c].existing)
            /\ IF put[c].existing # NoId
               THEN /\ issued' = [issued EXCEPT !["siteConfig"] = @ \cup Ids(siteConfig')]
                    /\ UNCHANGED nextId
               ELSE Sequences(put[c].body, "siteConfig", siteConfig')
            /\ res' = Response("PUT /config", 200,
                               updateSiteConfigReturns(put[c].body, put[c].existing))
       ELSE /\ res' = Response("PUT /config", 400, <<>>)
            /\ UNCHANGED <<siteConfig, nextId, issued>>
    /\ UNCHANGED <<users, projects, products, messages, messageReplies, now, seed>>

\* ------------------------------------------------------------- seeding
DefaultConfig ==
    [id |-> NoId, companyName |-> "Voorbeeld Bedrijf BV",
     heroTitle |-> "Welkom bij Voorbeeld Bedrijf BV", aboutTitle |-> "Over Ons"]

demoProjects ==
    << [id |-> NoId, createdAt |-> NoStamp, title |-> "Modern Kantoorgebouw Amsterdam",
        imageUrl |-> "https://images.unsplash.com/photo-1486406146926-c627a92ad1ab"],
       [id |-> NoId, createdAt |-> NoStamp, title |-> "Luxe Woonhuis Interieur",
        imageUrl |-> "https://images.unsplash.com/photo-1586023492125-27b2c045efd7"],
       [id |-> NoId, createdAt |-> NoStamp, title |-> "E-commerce Platform",
        imageUrl |-> "https://images.unsplash.com/photo-1460925895917-afdab827c52f"] >>

demoProducts ==
    << [id |-> NoId, createdAt |-> NoStamp, title |-> "Premium Consultancy Pakket",
        imageUrl |-> "https://images.unsplash.com/photo-1552664730-d307ca884978"],
       [id |-> NoId, createdAt |-> NoStamp, title |-> "Design Workshop",
        imageUrl |-> "https://images.unsplash.com/photo-1542744173-8e7e53415bb0"],
       [id |-> NoId, createdAt |-> NoStamp, title |-> "Digitale Strategie Audit",
        imageUrl |-> "https://images.unsplash.com/photo-1551288049-bebda4e38f71"] >>

SeedStart == [pc |-> "checkConfig", existing |-> NoId, i |-> 1]

\* A rejected storage call ends initializeDefaults: nothing catches it.
SeedGoto(s, pc) == seed' = [seed EXCEPT ![s].pc = pc]

\* const existingConfig = await this.getSiteConfig(); if (!existingConfig) ...
SeedCheckConfig(s, up, found) ==
    /\ seed[s].pc = "checkConfig"
    /\ found \in getSiteConfig
    /\ SeedGoto(s, IF ~up THEN "failed"
                   ELSE IF found = <<>> THEN "upsertGet" ELSE "checkProjects")
    /\ UNCHANGED <<tables, nextId, issued, now, put, res>>

\* updateSiteConfig(default): its own getSiteConfig ...
SeedUpsertGet(s, up, found) ==
    /\ seed[s].pc = "upsertGet"
    /\ found \in getSiteConfig
    /\ seed' = [seed EXCEPT ![s].pc = IF up THEN "upsertWrite" ELSE "failed",
                            ![s].existing = FoundId(found)]
    /\ UNCHANGED <<tables, nextId, issued, now, put, res>>

\* ... and its update or insert.
SeedUpsertWrite(s, up) ==
    /\ seed[s].pc = "upsertWrite"
    /\ IF up /\ ~updateSiteConfigFails(DefaultConfig, seed[s].existing)
       THEN /\ siteConfig' = updateSiteConfig(DefaultConfig, seed[s].existing)
            /\ IF seed[s].existing # NoId
               THEN /\ issued' = [issued EXCEPT !["siteConfig"] = @ \cup Ids(siteConfig')]
                    /\ UNCHANGED nextId
               ELSE Sequences(DefaultConfig, "siteConfig", siteConfig')
            /\ SeedGoto(s, "checkProjects")
       ELSE /\ SeedGoto(s, "failed")
            /\ UNCHANGED <<siteConfig, nextId, issued>>
    /\ UNCHANGED <<users, projects, products, messages, messageReplies, now, put, res>>

\* Faulty variant: the demo projects are inserted without the emptiness check.
SeedCheckProjectsAlways(s, up) ==
    /\ seed[s].pc = "checkProjects"
    /\ seed' = [seed EXCEPT ![s].pc = IF ~up THEN "failed" ELSE "createProject",
                            ![s].i = 1]
    /\ UNCHANGED <<tables, nextId, issued, now, put, res>>

\* const existingProjects = await this.getProjects(); if (length === 0) ...
SeedCheckProjects(s, up) ==
    /\ seed[s].pc = "checkProjects"
    /\ seed' = [seed EXCEPT ![s].pc = IF ~up THEN "failed"
                                      ELSE IF Len(projects) = 0 THEN "createProject"
                                      ELSE "checkProducts",
                            ![s].i = 1]
    /\ UNCHANGED <<tables, nextId, issued, now, put, res>>

\* Faulty variant: a loop that looks at the table again before each insert
\* and stops when another writer's row is there.
SeedCreateProjectGuarded(s, up) ==
    /\ seed[s].pc = "createProject"
    /\ LET v == demoProjects[seed[s].i] IN
       IF up /\ ~InsertFails(projects, v, "projects") /\ Len(projects) = seed[s].i - 1
       THEN /\ projects' = Append(projects, CatalogRow(v, InsertId(v, "projects"), InsertStamp(v)))
            /\ Sequences(v, "projects", projects')
            /\ seed' = [seed EXCEPT ![s].pc = IF seed[s].i < Len(demoProjects)
                                              THEN "createProject" ELSE "checkProducts",
                                    ![s].i = IF seed[s].i < Len(demoProjects) THEN @ + 1 ELSE 1]
       ELSE /\ SeedGoto(s, "failed")
            /\ UNCHANGED <<projects, nextId, issued>>
    /\ UNCHANGED <<users, siteConfig, products, messages, messageReplies, now, put, res>>

\* for (const project of demoProjects) await this.createProject(project);
SeedCreateProject(s, up) ==
    /\ seed[s].pc = "createProject"
    /\ LET v == demoProjects[seed[s].i] IN
       IF up /\ ~InsertFails(projects, v, "projects")
       THEN /\ projects' = Append(projects, CatalogRow(v, InsertId(v, "projects"), InsertStamp(v)))
            /\ Sequences(v, "projects", projects')
            /\ seed' = [seed EXCEPT ![s].pc = IF seed[s].i < Len(demoProjects)
                                              THEN "createProject" ELSE "checkProducts",
                                    ![s].i = IF seed[s].i < Len(demoProjects) THEN @ + 1 ELSE 1]
       ELSE /\ SeedGoto(s, "failed")
            /\ UNCHANGED <<projects, nextId, issued>>
    /\ UNCHANGED <<users, siteConfig, products, messages, messageReplies, now, put, res>>

\* const existingProducts = await this.getProducts(); if (length === 0) ...
SeedCheckProducts(s, up) ==
    /\ seed[s].pc = "checkProducts"
    /\ seed' = [seed EXCEPT ![s].pc = IF ~up THEN "failed"
                                      ELSE IF Len(products) = 0 THEN "createProduct"
                                      ELSE "done",
                            ![s].i = 1]
    /\ UNCHANGED <<tables, nextId, issued, now, put, res>>

\* for (const product of demoProducts) await this.createProduct(product);
SeedCreateProduct(s, up) ==
    /\ seed[s].pc = "createProduct"
    /\ LET v == demoProducts[seed[s].i] IN
       IF up /\ ~InsertFails(products, v, "products")
       THEN /\ products' = Append(products, CatalogRow(v, InsertId(v, "products"), InsertStamp(v)))
            /\ Sequences(v, "products", products')
            /\ seed' = [seed EXCEPT ![s].pc = IF seed[s].i < Len(demoProducts)
                                              THEN "createProduct" ELSE "done",
                                    ![s].i = IF seed[s].i < Len(demoProducts) THEN @ + 1 ELSE 1]
       ELSE /\ SeedGoto(s, "failed")
            /\ UNCHANGED <<products, nextId, issued>>
    /\ UNCHANGED <<users, siteConfig, projects, messages, messageReplies, now, put, res>>

\* ------------------------------------------------------------- uploads
\* multer: limits.fileSize and fileFilter.
FileSizeLimit == 5 * 1024 * 1024

\* file.mimetype.startsWith('image/'): the mimetype is kept as type and subtype.
fileFilter(file) == file.type = "image"

\* The uploads of a request: none, or one file under the field `image`.
Uploads ==
    { <<>>,
      <<[type |-> "image", subtype |-> "png", size |-> 1024]>>,
      <<[type |-> "text", subtype |-> "plain", size |-> 1024]>>,
      <<[type |-> "image", subtype |-> "png", size |-> FileSizeLimit + 1]>> }

\* upload.single('image') ends with an error for a file the filter refuses or
\* that exceeds the size limit; it then calls next(err) and the route handler
\* does not run.
UploadRejected(upload) ==
    upload # <<>> /\ (~fileFilter(upload[1]) \/ upload[1].size > FileSizeLimit)

\* next(err) with no error-handling middleware registered by registerRoutes:
\* Express answers with err.status / err.statusCode, which the errors of multer
\* and of the filter do not have, hence 500.
UploadError(route) == Response(route, 500, <<>>)

\* if (req.file) data.imageUrl = `/uploads/${req.file.filename}`
WithImage(data, upload) ==
    IF upload # <<>> THEN [data EXCEPT !.imageUrl = "/uploads/file"] ELSE data

\* ------------------------------------------------------------- projects, products
\* The request bodies of the project and product routes: a title, a title
\* together with the server-assigned columns, nothing, and a wrong type.
CatalogBodies ==
    { [id |-> NoId,     createdAt |-> NoStamp,     title |-> "A",       imageUrl |-> Absent],
      [id |-> ClientId, createdAt |-> ClientStamp, title |-> "B",       imageUrl |-> Absent],
      [id |-> NoId,     createdAt |-> NoStamp,     title |-> Absent,    imageUrl |-> Absent],
      [id |-> NoId,     createdAt |-> NoStamp,     title |-> NotString, imageUrl |-> Absent] }

\* The requests of the project and product routes: each body without a file,
\* a title and no title with a file the upload accepts, and a title with each
\* file it refuses.
CatalogRequests ==
    {[raw |-> b, upload |-> <<>>] : b \in CatalogBodies}
    \cup {[raw |-> b, upload |-> u] :
            b \in {c \in CatalogBodies : c.id = NoId /\ c.title \in {"A", Absent}},
            u \in {f \in Uploads : f # <<>> /\ ~UploadRejected(f)}}
    \cup {[raw |-> b, upload |-> u] :
            b \in {c \in CatalogBodies : c.id = NoId /\ c.title = "A"},
            u \in {f \in Uploads : UploadRejected(f)}}

\* The ids a request may name: those the sequences can have issued, and one more.
PathIds == 1..(MaxCreates + 1)

\* The cap of SpecCatalog on the rows created.
CanCreate == (nextId["projects"] - 1) + (nextId["products"] - 1) < MaxCreates

\* Faulty variant: a listing without the orderBy.
getRowsUnordered(table) == table

\* getProjects / getProducts
getRows(table) == OrderByCreatedAt(table)

\* GET /api/projects, GET /api/products
ListRows(route, table, up) ==
    IF up THEN Response(route, 200, getRows(table)) ELSE Response(route, 500, <<>>)

\* GET /api/projects/:id, GET /api/products/:id, GET /api/messages/:id
GetRow(route, table, id, up) ==
    IF ~up THEN Response(route, 500, <<>>)
    ELSE IF Select(table, id) = <<>> THEN Response(route, 404, <<>>)
    ELSE Response(route, 200, Select(table, id))

\* POST /api/projects, POST /api/products after the upload was accepted: what
\* the handler does to the table, to the sequence, and the response.
\* outcome "created": the row is stored; "refused": the statement failed on a
\* constraint (the sequence value is spent); "none": no statement ran or the
\* store did not answer.
PostRow(route, table, t, raw, upload, up) ==
    LET v == WithImage(InsertCatalogStrip(raw), upload)
        row == CatalogRow(v, InsertId(v, t), InsertStamp(v))
    IN IF ~InsertCatalogValid(raw) \/ ~up
       THEN [outcome |-> "none", v |-> v, table |-> table, res |-> Response(route, 400, <<>>)]
       ELSE IF InsertFails(table, v, t)
       THEN [outcome |-> "refused", v |-> v, table |-> table, res |-> Response(route, 400, <<>>)]
       ELSE [outcome |-> "created", v |-> v, table |-> Append(table, row),
             res |-> Response(route, 200, <<row>>)]

\* The sequence and the history of table t after an insert of v.
AfterInsert(outcome, v, t, after) ==
    IF outcome = "none" THEN UNCHANGED <<nextId, issued>>
    ELSE Sequences(v, t, after)

\* PUT /api/projects/:id, PUT /api/products/:id after the upload was accepted.
PutRow(route, table, id, raw, upload, up, moved) ==
    LET v == WithImage(InsertCatalogStrip(raw), upload)
        after == UpdateWhere(table, id, [r \in Range(table) |-> SetCatalog(r, v)], moved)
    IN IF ~PartialCatalogValid(raw) \/ NothingToSet(v) \/ ~up
       THEN [table |-> table, res |-> Response(route, 400, <<>>)]
       ELSE IF Select(table, id) = <<>>
       THEN [table |-> table, res |-> Response(route, 404, <<>>)]
       ELSE [table |-> after,
             res |-> Response(route, 200,
                       [i \in 1..Len(Select(table, id)) |-> SetCatalog(Select(table, id)[i], v)])]

\* DELETE /api/projects/:id, DELETE /api/products/:id
DeleteRow(route, table, id, up) ==
    IF ~up THEN [table |-> table, res |-> Response(route, 500, <<>>)]
    ELSE IF Select(table, id) = <<>>
    THEN [table |-> table, res |-> Response(route, 404, <<>>)]
    ELSE [table |-> Remove(table, id), res |-> Response(route, 200, <<>>)]

GetProjects(up) ==
    /\ res' = ListRows("GET /projects", projects, up)
    /\ UNCHANGED <<tables, nextId, issued, now, put, seed>>

GetProject(id, up) ==
    /\ res' = GetRow("GET /projects/:id", projects, id, up)
    /\ UNCHANGED <<tables, nextId, issued, now, put, seed>>

PostProject(raw, upload, up) ==
    /\ IF UploadRejected(upload)
       THEN /\ res' = UploadError("POST /projects")
            /\ UNCHANGED <<projects, nextId, issued>>
       ELSE LET r == PostRow("POST /projects", projects, "projects", raw, upload, up)
            IN /\ projects' = r.table
               /\ res' = r.res
               /\ AfterInsert(r.outcome, r.v, "projects", r.table)
    /\ UNCHANGED <<users, siteConfig, products, messages, messageReplies, now, put, seed>>

PutProject(id, raw, upload, up, moved) ==
    /\ IF UploadRejected(upload)
       THEN /\ res' = UploadError("PUT /projects/:id")
            /\ UNCHANGED projects
       ELSE LET r == PutRow("PUT /projects/:id", projects, id, raw, upload, up, moved)
            IN /\ projects' = r.table
               /\ res' = r.res
    /\ issued' = [issued EXCEPT !["projects"] = @ \cup Ids(projects')]
    /\ UNCHANGED <<users, siteConfig, products, messages, messageReplies, nextId, now, put, seed>>

DeleteProject(id, up) ==
    /\ LET r == DeleteRow("DELETE /projects/:id", projects, id, up)
       IN /\ projects' = r.table
          /\ res' = r.res
    /\ UNCHANGED <<users, siteConfig, products, messages, messageReplies, nextId, issued, now, put, seed>>

GetProducts(up) ==
    /\ res' = ListRows("GET /products", products, up)
    /\ UNCHANGED <<tables, nextId, issued, now, put, seed>>

GetProduct(id, up) ==
    /\ res' = GetRow("GET /products/:id", products, id, up)
    /\ UNCHANGED <<tables, nextId, issued, now, put, seed>>

PostProduct(raw, upload, up) ==
    /\ IF UploadRejected(upload)
       THEN /\ res' = UploadError("POST /products")
            /\ UNCHANGED <<products, nextId, issued>>
       ELSE LET r == PostRow("POST /products", products, "products", raw, upload, up)
            IN /\ products' = r.table
               /\ res' = r.res
               /\ AfterInsert(r.outcome, r.v, "products", r.table)
    /\ UNCHANGED <<users, siteConfig, projects, messages, messageReplies, now, put, seed>>

PutProduct(id, raw, upload, up, moved) ==
    /\ IF UploadRejected(upload)
       THEN /\ res' = UploadError("PUT /products/:id")
            /\ UNCHANGED products
       ELSE LET r == PutRow("PUT /products/:id", products, id, raw, upload, up, moved)
            IN /\ products' = r.table
               /\ res' = r.res
    /\ issued' = [issued EXCEPT !["products"] = @ \cup Ids(products')]
    /\ UNCHANGED <<users, siteConfig, projects, messages, messageReplies, nextId, now, put, seed>>

DeleteProduct(id, up) ==
    /\ LET r == DeleteRow("DELETE /products/:id", products, id, up)
       IN /\ products' = r.table
          /\ res' = r.res
    /\ UNCHANGED <<users, siteConfig, projects, messages, messageReplies, nextId, issued, now, put, seed>>

\* ------------------------------------------------------------- messages
\* The request bodies of POST /api/messages: a message, a message together
\* with the columns the server sets, and one without the required text.
MessageBodies ==
    { [id |-> NoId,     createdAt |-> NoStamp,     isRead |-> Absent, message |-> "A"],
      [id |-> ClientId, createdAt |-> ClientStamp, isRead |-> "true", message |-> "B"],
      [id |-> NoId,     createdAt |-> NoStamp,     isRead |-> Absent, message |-> Absent] }

\* The request bodies of POST /api/messages/:id/replies: the reply text alone,
\* a reply with every other key as well, and one without the required text.
ReplyBodies ==
    { [id |-> NoId, createdAt |-> NoStamp, messageId |-> NoId, isFromAdmin |-> Absent, reply |-> "A"],
      [id |-> ClientId, createdAt |-> ClientStamp, messageId |-> ClientId, isFromAdmin |-> "false",
       reply |-> "B"],
      [id |-> NoId, createdAt |-> NoStamp, messageId |-> NoId, isFromAdmin |-> Absent, reply |-> Absent] }

MessageIds == 1..(MaxMessages + 1)

\* The cap of SpecReplies on the rows created.
CanPost == (nextId["messages"] - 1) + (nextId["messageReplies"] - 1) < MaxMessages

\* GET /api/messages
GetMessages(up) ==
    /\ res' = ListRows("GET /messages", messages, up)
    /\ UNCHANGED <<tables, nextId, issued, now, put, seed>>

\* GET /api/messages/:id
GetMessage(id, up) ==
    /\ res' = GetRow("GET /messages/:id", messages, id, up)
    /\ UNCHANGED <<tables, nextId, issued, now, put, seed>>

\* POST /api/messages: parse, createMessage; the catch answers 400.
PostMessage(raw, up) ==
    /\ LET v == InsertMessageStrip(raw)
           row == MessageRow(v, InsertId(v, "messages"), InsertStamp(v))
       IN IF ~InsertMessageValid(raw) \/ ~up
          THEN /\ res' = Response("POST /messages", 400, <<>>)
               /\ UNCHANGED <<messages, nextId, issued>>
          ELSE IF InsertFails(messages, v, "messages")
          THEN /\ res' = Response("POST /messages", 400, <<>>)
               /\ UNCHANGED messages
               /\ Sequences(v, "messages", messages)
          ELSE /\ messages' = Append(messages, row)
               /\ res' = Response("POST /messages", 200, <<row>>)
               /\ Sequences(v, "messages", messages')
    /\ UNCHANGED <<users, siteConfig, projects, products, messageReplies, now, put, seed>>

\* Faulty variant: an update that flips the flag.
markMessageAsToggled(id, moved) ==
    UpdateWhere(messages, id, [r \in Range(messages) |-> [r EXCEPT !.isRead = ~r.isRead]], moved)

\* markMessageAsRead: update ... set isRead = true where id; rowCount > 0.
markMessageAsRead(id, moved) ==
    UpdateWhere(messages, id, [r \in Range(messages) |-> [r EXCEPT !.isRead = TRUE]], moved)

\* PUT /api/messages/:id/read
PutMessageRead(id, up, moved) ==
    /\ IF ~up
       THEN /\ res' = Response("PUT /messages/:id/read", 500, <<>>)
            /\ UNCHANGED messages
       ELSE IF Select(messages, id) = <<>>
       THEN /\ res' = Response("PUT /messages/:id/read", 404, <<>>)
            /\ UNCHANGED messages
       ELSE /\ res' = Response("PUT /messages/:id/read", 200, <<>>)
            /\ messages' = markMessageAsRead(id, moved)
    /\ UNCHANGED <<users, siteConfig, projects, products, messageReplies, nextId, issued, now, put, seed>>

\* Faulty variant: the replies of every message.
getMessageRepliesAll(messageId) == OrderByCreatedAt(messageReplies)

\* getMessageReplies: where messageId = :id, ordered by createdAt.
getMessageReplies(messageId) ==
    OrderByCreatedAt(SelectSeq(messageReplies, LAMBDA r : r.messageId = messageId))

\* GET /api/messages/:id/replies
GetMessageReplies(messageId, up) ==
    /\ res' = IF up THEN Response("GET /messages/:id/replies", 200, getMessageReplies(messageId))
              ELSE Response("GET /messages/:id/replies", 500, <<>>)
    /\ UNCHANGED <<tables, nextId, issued, now, put, seed>>

\* insertMessageReplySchema.parse({...req.body, messageId}): the path's id
\* replaces a messageId of the body.
ReplyData(raw, messageId) == InsertMessageReplyStrip([raw EXCEPT !.messageId = messageId])

\* message_replies.message_id references messages.id.
ForeignKeyFails(v) == v.messageId \notin Ids(messages)

\* POST /api/messages/:id/replies: parse, createMessageReply; the catch answers 400.
PostMessageReply(messageId, raw, up) ==
    /\ LET v == ReplyData(raw, messageId)
           row == MessageReplyRow(v, InsertId(v, "messageReplies"), InsertStamp(v))
       IN IF ~InsertMessageReplyValid(raw) \/ ~up
          THEN /\ res' = Response("POST /messages/:id/replies", 400, <<>>)
               /\ UNCHANGED <<messageReplies, nextId, issued>>
          ELSE IF InsertFails(messageReplies, v, "messageReplies") \/ ForeignKeyFails(v)
          THEN /\ res' = Response("POST /messages/:id/replies", 400, <<>>)
               /\ UNCHANGED messageReplies
               /\ Sequences(v, "messageReplies", messageReplies)
          ELSE /\ messageReplies' = Append(messageReplies, row)
               /\ res' = Response("POST /messages/:id/replies", 200, <<row>>)
               /\ Sequences(v, "messageReplies", messageReplies')
    /\ UNCHANGED <<users, siteConfig, projects, products, messages, now, put, seed>>

\* ------------------------------------------------------------- users
\* What createUser may be given (no route calls it).
UserInputs ==
    { [id |-> NoId, username |-> "admin", password |-> "secret"],
      [id |-> NoId, username |-> "guest", password |-> "secret"] }

\* createUser: insert; users.username is unique.
CreateUser(v, up) ==
    /\ IF ~up THEN UNCHANGED <<users, nextId, issued>>
       ELSE IF InsertFails(users, v, "users")
               \/ v.username \in {users[i].username : i \in 1..Len(users)}
       THEN /\ UNCHANGED users
            /\ Sequences(v, "users", users)
       ELSE /\ users' = Append(users, UserRow(v, InsertId(v, "users")))
            /\ Sequences(v, "users", users')
    /\ UNCHANGED <<siteConfig, projects, products, messages, messageReplies, now, put, seed, res>>

\* The database clock advances between statements, or does not.
Tick ==
    /\ now < MaxClock
    /\ now' = now + 1
    /\ UNCHANGED <<tables, nextId, issued, put, seed, res>>

\* ------------------------------------------------------------- specifications
Init ==
    /\ users = <<>>
    /\ siteConfig = <<>>
    /\ projects = <<>>
    /\ products = <<>>
    /\ messages = <<>>
    /\ messageReplies = <<>>
    /\ nextId = [t \in TableNames |-> 1]
    /\ issued = [t \in TableNames |-> {}]
    /\ now = 0
    /\ put = [c \in Clients |-> Idle]
    /\ seed = [s \in Seeders |-> SeedStart]
    /\ res = Response("", 0, <<>>)
    /\ steps = 0

\* A step of a per-area specification, and a step of the bounded run of Spec.
Free(A) == A /\ UNCHANGED steps
Counted(A) == steps < MaxSteps /\ A /\ steps' = steps + 1

\* The configuration routes and the configuration part of the seeding routine,
\* interleaved at the storage calls.
NextConfig ==
    \/ Free(\E s \in Seeders, up \in BOOLEAN, found \in getSiteConfig : SeedCheckConfig(s, up, found))
    \/ Free(\E s \in Seeders, up \in BOOLEAN, found \in getSiteConfig : SeedUpsertGet(s, up, found))
    \/ Free(\E s \in Seeders, up \in BOOLEAN : SeedUpsertWrite(s, up))
    \/ Free(\E up \in BOOLEAN, found \in getSiteConfig : GetConfig(up, found))
    \/ Free(\E c \in Clients, raw \in ConfigBodies, up \in BOOLEAN, found \in getSiteConfig :
                PutConfigGet(c, raw, up, found))
    \/ Free(\E c \in Clients, up \in BOOLEAN : PutConfigWrite(c, up))

SpecConfig == Init /\ [][NextConfig]_vars

\* The creates, updates, deletes and listings of projects and products.
NextCatalog ==
    \/ Free(Tick)
    \/ Free(\E up \in BOOLEAN : GetProjects(up))
    \/ Free(CanCreate /\ \E q \in CatalogRequests, up \in BOOLEAN :
                PostProject(q.raw, q.upload, up))
    \/ Free(\E id \in PathIds, q \in CatalogRequests, up \in BOOLEAN : \E moved \in Moves(projects, id) :
                PutProject(id, q.raw, q.upload, up, moved))
    \/ Free(\E id \in PathIds, up \in BOOLEAN : DeleteProject(id, up))
    \/ Free(\E up \in BOOLEAN : GetProducts(up))
    \/ Free(CanCreate /\ \E q \in CatalogRequests, up \in BOOLEAN :
                PostProduct(q.raw, q.upload, up))
    \/ Free(\E id \in PathIds, q \in CatalogRequests, up \in BOOLEAN : \E moved \in Moves(products, id) :
                PutProduct(id, q.raw, q.upload, up, moved))
    \/ Free(\E id \in PathIds, up \in BOOLEAN : DeleteProduct(id, up))

SpecCatalog == Init /\ [][NextCatalog]_vars

\* The creation of messages and replies and the listing of replies.
NextReplies ==
    \/ Free(Tick)
    \/ Free(CanPost /\ \E raw \in MessageBodies, up \in BOOLEAN : PostMessage(raw, up))
    \/ Free(\E id \in MessageIds, up \in BOOLEAN : GetMessageReplies(id, up))
    \/ Free(CanPost /\ \E id \in MessageIds, raw \in ReplyBodies, up \in BOOLEAN :
                PostMessageReply(id, raw, up))

SpecReplies == Init /\ [][NextReplies]_vars

\* The database outlives the server process: a process may start on an empty
\* database or on the one a completed seeding run of an earlier process left.
SeededRows(demo) == [i \in 1..Len(demo) |-> CatalogRow(demo[i], i, 0)]

InitAll ==
    /\ users = <<>>
    /\ messages = <<>>
    /\ messageReplies = <<>>
    /\ \/ /\ siteConfig = <<>>
          /\ projects = <<>>
          /\ products = <<>>
       \/ /\ siteConfig = <<SiteConfigRow(DefaultConfig, 1)>>
          /\ projects = SeededRows(demoProjects)
          /\ products = SeededRows(demoProducts)
    /\ nextId = [t \in TableNames |->
                   IF t = "siteConfig" THEN Len(siteConfig) + 1
                   ELSE IF t = "projects" THEN Len(projects) + 1
                   ELSE IF t = "products" THEN Len(products) + 1 ELSE 1]
    /\ issued = [t \in TableNames |-> 1..(nextId[t] - 1)]
    /\ now = 0
    /\ put = [c \in Clients |-> Idle]
    /\ seed = [s \in Seeders |-> SeedStart]
    /\ res = Response("", 0, <<>>)
    /\ steps = 0

\* Every route and createUser, for MaxSteps steps.
Next ==
    \/ Counted(Tick)
    \/ Counted(\E up \in BOOLEAN, found \in getSiteConfig : GetConfig(up, found))
    \/ Counted(\E c \in Clients, raw \in ConfigBodies, up \in BOOLEAN, found \in getSiteConfig :
                PutConfigGet(c, raw, up, found))
    \/ Counted(\E c \in Clients, up \in BOOLEAN : PutConfigWrite(c, up))
    \/ Counted(\E up \in BOOLEAN : GetProjects(up))
    \/ Counted(\E id \in PathIds, up \in BOOLEAN : GetProject(id, up))
    \/ Counted(\E q \in CatalogRequests, up \in BOOLEAN : PostProject(q.raw, q.upload, up))
    \/ Counted(\E id \in PathIds, q \in CatalogRequests, up \in BOOLEAN : \E moved \in Moves(projects, id) :
                PutProject(id, q.raw, q.upload, up, moved))
    \/ Counted(\E id \in PathIds, up \in BOOLEAN : DeleteProject(id, up))
    \/ Counted(\E up \in BOOLEAN : GetProducts(up))
    \/ Counted(\E id \in PathIds, up \in BOOLEAN : GetProduct(id, up))
    \/ Counted(\E q \in CatalogRequests, up \in BOOLEAN : PostProduct(q.raw, q.upload, up))
    \/ Counted(\E id \in PathIds, q \in CatalogRequests, up \in BOOLEAN : \E moved \in Moves(products, id) :
                PutProduct(id, q.raw, q.upload, up, moved))
    \/ Counted(\E id \in PathIds, up \in BOOLEAN : DeleteProduct(id, up))
    \/ Counted(\E up \in BOOLEAN : GetMessages(up))
    \/ Counted(\E id \in MessageIds, up \in BOOLEAN : GetMessage(id, up))
    \/ Counted(\E raw \in MessageBodies, up \in BOOLEAN : PostMessage(raw, up))
    \/ Counted(\E id \in MessageIds, up \in BOOLEAN : \E moved \in Moves(messages, id) :
                PutMessageRead(id, up, moved))
    \/ Counted(\E id \in MessageIds, up \in BOOLEAN : GetMessageReplies(id, up))
    \/ Counted(\E id \in MessageIds, raw \in ReplyBodies, up \in BOOLEAN : PostMessageReply(id, raw, up))
    \/ Counted(\E v \in UserInputs, up \in BOOLEAN : CreateUser(v, up))

Spec == InitAll /\ [][Next]_vars

\* The server process ends (after its seeding run completed, or after the run
\* failed) and a new one starts on the same database: the constructor starts
\* the seeding routine again.
Restart(s, from) ==
    /\ seed[s].pc = from
    /\ seed' = [seed EXCEPT ![s] = SeedStart]
    /\ UNCHANGED <<tables, nextId, issued, now, put, res>>

\* What a client may have left in the database before the process starts:
\* nothing, a configuration, a project, a product, or any of them together.
ClientConfig == SiteConfigRow([id |-> NoId, companyName |-> "A", heroTitle |-> "A", aboutTitle |-> Absent], 1)
ClientRow == CatalogRow([title |-> "A", imageUrl |-> Absent], 1, 0)

InitSeed ==
    /\ users = <<>>
    /\ messages = <<>>
    /\ messageReplies = <<>>
    /\ siteConfig \in {<<>>, <<ClientConfig>>}
    /\ projects \in {<<>>, <<ClientRow>>}
    /\ products \in {<<>>, <<ClientRow>>}
    /\ nextId = [t \in TableNames |->
                   IF t = "siteConfig" THEN Len(siteConfig) + 1
                   ELSE IF t = "projects" THEN Len(projects) + 1
                   ELSE IF t = "products" THEN Len(products) + 1 ELSE 1]
    /\ issued = [t \in TableNames |-> 1..(nextId[t] - 1)]
    /\ now = 0
    /\ put = [c \in Clients |-> Idle]
    /\ seed = [s \in Seeders |-> SeedStart]
    /\ res = Response("", 0, <<>>)
    /\ steps = 0

\* The seeding routine alone, no request served: run after run, `steps`
\* counting the runs that completed.
NextSeed ==
    \/ Free(Tick)
    \/ Free(\E s \in Seeders, up \in BOOLEAN, found \in getSiteConfig : SeedCheckConfig(s, up, found))
    \/ Free(\E s \in Seeders, up \in BOOLEAN, found \in getSiteConfig : SeedUpsertGet(s, up, found))
    \/ Free(\E s \in Seeders, up \in BOOLEAN : SeedUpsertWrite(s, up))
    \/ Free(\E s \in Seeders, up \in BOOLEAN : SeedCheckProjects(s, up))
    \/ Free(\E s \in Seeders, up \in BOOLEAN : SeedCreateProject(s, up))
    \/ Free(\E s \in Seeders, up \in BOOLEAN : SeedCheckProducts(s, up))
    \/ Free(\E s \in Seeders, up \in BOOLEAN : SeedCreateProduct(s, up))
    \/ Free(\E s \in Seeders : Restart(s, "failed"))
    \/ Counted(\E s \in Seeders : Restart(s, "done"))

SpecSeed == InitSeed /\ [][NextSeed]_vars

\* The seeding routine and the requests that create projects and products:
\* the constructor does not await initializeDefaults, so the routes are
\* served while it runs.  (SpecConfig holds the routine's configuration steps
\* together with PUT /api/config.)
NextRace ==
    \/ Free(\E s \in Seeders, up \in BOOLEAN, found \in getSiteConfig : SeedCheckConfig(s, up, found))
    \/ Free(\E s \in Seeders, up \in BOOLEAN, found \in getSiteConfig : SeedUpsertGet(s, up, found))
    \/ Free(\E s \in Seeders, up \in BOOLEAN : SeedUpsertWrite(s, up))
    \/ Free(\E s \in Seeders, up \in BOOLEAN : SeedCheckProjects(s, up))
    \/ Free(\E s \in Seeders, up \in BOOLEAN : SeedCreateProject(s, up))
    \/ Free(\E s \in Seeders, up \in BOOLEAN : SeedCheckProducts(s, up))
    \/ Free(\E s \in Seeders, up \in BOOLEAN : SeedCreateProduct(s, up))
    \/ Free(CanCreate /\ \E q \in CatalogRequests, up \in BOOLEAN :
                PostProject(q.raw, q.upload, up))
    \/ Free(CanCreate /\ \E q \in CatalogRequests, up \in BOOLEAN :
                PostProduct(q.raw, q.upload, up))

SpecRace == Init /\ [][NextRace]_vars

\* The routes that read and write the messages table.
NextRead ==
    \/ Free(CanPost /\ \E raw \in MessageBodies, up \in BOOLEAN : PostMessage(raw, up))
    \/ Free(\E id \in MessageIds, up \in BOOLEAN : \E moved \in Moves(messages, id) :
                PutMessageRead(id, up, moved))
    \/ Free(\E up \in BOOLEAN : GetMessages(up))
    \/ Free(\E id \in MessageIds, up \in BOOLEAN : GetMessage(id, up))

SpecRead == Init /\ [][NextRead]_vars

\* ------------------------------------------------------------- claims
Sorted(l) == \A i, j \in 1..Len(l) : i < j => l[i].createdAt <= l[j].createdAt
IdsOf(l) == [i \in 1..Len(l) |-> l[i].id]
IdStamps(table) == {<<table[i].id, table[i].createdAt>> : i \in 1..Len(table)}
Distinct(l) == \A i, j \in 1..Len(l) : i # j => l[i] # l[j]

\* C1 (as claimed): the site_config table never holds two or more rows,
\* whatever the interleaving of the seeding routine and PUT /api/config.
C1_AtMostOneConfigRow == Len(siteConfig) <= 1

\* C2: a PUT /api/config on an empty table creates one row with the values of
\* its body; a PUT /api/config that found the single row leaves exactly one
\* row, with the same id, every field of the body in it and every field the
\* body omits as it was.
C2_PutConfigMerges ==
    [][\A c \in Clients :
         PutConfigWrite(c, TRUE) =>
           LET b == put[c].body IN
           /\ siteConfig = <<>> =>
                /\ Len(siteConfig') = 1
                /\ siteConfig'[1].companyName = b.companyName
                /\ b.heroTitle # Absent => siteConfig'[1].heroTitle = b.heroTitle
                /\ b.aboutTitle # Absent => siteConfig'[1].aboutTitle = b.aboutTitle
                /\ res'.status = 200
           /\ (Len(siteConfig) = 1 /\ put[c].existing # NoId) =>
                /\ Len(siteConfig') = 1
                /\ siteConfig'[1].id = siteConfig[1].id
                /\ \A f \in {"companyName", "heroTitle", "aboutTitle"} :
                     siteConfig'[1][f] = IF b[f] # Absent THEN b[f] ELSE siteConfig[1][f]
                /\ res'.status = 200]_vars

\* A: companyName and heroTitle; then B: companyName and aboutTitle.
C2_Witness ==
    /\ res.route = "PUT /config" /\ res.status = 200
    /\ Len(siteConfig) = 1
    /\ siteConfig[1].companyName = "B"
    /\ siteConfig[1].heroTitle = "A"
    /\ siteConfig[1].aboutTitle = "B"

\* C3 (as claimed): a by-id request of Project, Product or Message whose id
\* matches no row is answered 404 and changes no table, for every body the
\* update routes accept and a store that answers.
C3_AbsentIdIs404 ==
    [][\A id \in PathIds \cup MessageIds :
         /\ (id \notin Ids(projects) /\
               \/ GetProject(id, TRUE)
               \/ DeleteProject(id, TRUE)
               \/ \E q \in CatalogRequests, moved \in BOOLEAN :
                     /\ ~UploadRejected(q.upload) /\ PartialCatalogValid(q.raw)
                     /\ PutProject(id, q.raw, q.upload, TRUE, moved))
            => (res'.status = 404 /\ tables' = tables)
         /\ (id \notin Ids(products) /\
               \/ GetProduct(id, TRUE)
               \/ DeleteProduct(id, TRUE)
               \/ \E q \in CatalogRequests, moved \in BOOLEAN :
                     /\ ~UploadRejected(q.upload) /\ PartialCatalogValid(q.raw)
                     /\ PutProduct(id, q.raw, q.upload, TRUE, moved))
            => (res'.status = 404 /\ tables' = tables)
         /\ (id \notin Ids(messages) /\
               \/ GetMessage(id, TRUE)
               \/ \E moved \in BOOLEAN : PutMessageRead(id, TRUE, moved))
            => (res'.status = 404 /\ tables' = tables)]_vars

\* C4 (as claimed): a mutating route answers 400 only for input that fails
\* validation: with a body that passes the schema, whatever the storage call
\* does, the status is not 400.
C4_ValidInputIsNever400 ==
    [][/\ \A c \in Clients, raw \in ConfigBodies, found \in getSiteConfig :
            (InsertSiteConfigValid(raw) /\ PutConfigGet(c, raw, FALSE, found)) => res'.status # 400
       /\ \A c \in Clients, up \in BOOLEAN : PutConfigWrite(c, up) => res'.status # 400
       /\ \A q \in CatalogRequests, up \in BOOLEAN :
            (~UploadRejected(q.upload) /\ InsertCatalogValid(q.raw) /\
               (PostProject(q.raw, q.upload, up) \/ PostProduct(q.raw, q.upload, up)))
            => res'.status # 400
       /\ \A id \in PathIds, q \in CatalogRequests, up, moved \in BOOLEAN :
            (~UploadRejected(q.upload) /\ PartialCatalogValid(q.raw) /\
               (PutProject(id, q.raw, q.upload, up, moved) \/ PutProduct(id, q.raw, q.upload, up, moved)))
            => res'.status # 400
       /\ \A raw \in MessageBodies, up \in BOOLEAN :
            (InsertMessageValid(raw) /\ PostMessage(raw, up)) => res'.status # 400
       /\ \A id \in MessageIds, raw \in ReplyBodies, up \in BOOLEAN :
            (InsertMessageReplyValid(raw) /\ PostMessageReply(id, raw, up)) => res'.status # 400]_vars

\* C5 (as claimed): a POST /api/projects or POST /api/products whose file the
\* upload filter refuses is answered 400 and creates no row.
C5_RejectedUploadIs400 ==
    [][\A q \in CatalogRequests, up \in BOOLEAN :
         (UploadRejected(q.upload) /\
            (PostProject(q.raw, q.upload, up) \/ PostProduct(q.raw, q.upload, up)))
         => (res'.status = 400 /\ projects' = projects /\ products' = products)]_vars

\* A listing of `table`: every row once, createdAt never decreasing.
Listing(l, table) ==
    /\ Len(l) = Len(table)
    /\ Range(l) = Range(table)
    /\ Distinct(l)
    /\ Sorted(l)

\* A step that answers an update of a project (of a product) with 200: of the
\* steps of the project and product routes, only Tick leaves the response.
PutProjectStep == now' = now /\ res'.route = "PUT /projects/:id" /\ res'.status = 200

PutProductStep == now' = now /\ res'.route = "PUT /products/:id" /\ res'.status = 200

\* C6 (as claimed): GET /api/projects and GET /api/products return every
\* stored row once, createdAt never decreasing, and an update leaves every
\* row at its place in the listing.
C6_UpdateKeepsEveryPosition ==
    [][/\ GetProjects(TRUE) => Listing(res'.body, projects)
       /\ GetProducts(TRUE) => Listing(res'.body, products)
       /\ PutProjectStep => IdsOf(getRows(projects')) = IdsOf(getRows(projects))
       /\ PutProductStep => IdsOf(getRows(products')) = IdsOf(getRows(products))]_vars

\* Row a comes before row b in the listing l.
Before(l, a, b) ==
    \E i, j \in 1..Len(l) : i < j /\ l[i].id = a /\ l[j].id = b

\* An update keeps the order of the rows that differ in createdAt.
KeepsStampOrder(before, after) ==
    \A i, j \in 1..Len(before) :
        before[i].createdAt < before[j].createdAt
            => Before(getRows(after), before[i].id, before[j].id)

\* C6 (amended): GET /api/projects and GET /api/products return every stored
\* row once, createdAt never decreasing, and an update leaves every two rows
\* of different createdAt in the same order in the listing (rows of equal
\* createdAt may change places).
C6_OrderedListing ==
    [][/\ GetProjects(TRUE) => Listing(res'.body, projects)
       /\ GetProducts(TRUE) => Listing(res'.body, products)
       /\ PutProjectStep => KeepsStampOrder(projects, projects')
       /\ PutProductStep => KeepsStampOrder(products, products')]_vars

\* A listing answered for a table whose scan order is not its createdAt order.
C6_Witness ==
    /\ res.route = "GET /projects" /\ res.status = 200
    /\ res.body = getRows(projects)
    /\ \E i, j \in 1..Len(projects) : i < j /\ projects[i].createdAt > projects[j].createdAt

TableOf(t) ==
    CASE t = "users" -> users
      [] t = "siteConfig" -> siteConfig
      [] t = "projects" -> projects
      [] t = "products" -> products
      [] t = "messages" -> messages
      [] t = "messageReplies" -> messageReplies

Stamped == {"projects", "products", "messages", "messageReplies"}

\* C7: the id of a row that a step creates was never the id of a row of that
\* table before, deleted rows included; it is the value of the table's
\* sequence and the row's createdAt is the database clock, whatever id and
\* createdAt the request body carries.
C7_FreshServerAssignedIds ==
    [][\A t \in TableNames :
         \A i \in 1..Len(TableOf(t)') :
            LET r == TableOf(t)'[i] IN
            r.id \notin Ids(TableOf(t)) =>
               /\ r.id \notin issued[t]
               /\ r.id = nextId[t]
               /\ t \in Stamped => r.createdAt = now]_vars

\* A project created from a body that carries id and createdAt, after a
\* project was deleted.
C7_Witness ==
    /\ res.route = "POST /projects" /\ res.status = 200
    /\ res.body[1].title = "B"
    /\ res.body[1].id \in Ids(projects)
    /\ issued["projects"] \ Ids(projects) # {}

UpdateRoutes ==
    {"PUT /projects/:id", "PUT /products/:id", "PUT /messages/:id/read", "PUT /config"}

\* A step of one of the update routes: the last response is of such a route
\* and the step is not one of those that send no response (the clock,
\* createUser, and PUT /api/config up to its first await).
UpdateStep ==
    /\ res'.route \in UpdateRoutes
    /\ now' = now
    /\ users' = users /\ nextId'["users"] = nextId["users"]
    /\ ~\E c \in Clients : put[c].pc = "idle" /\ put'[c].pc = "write"

\* C8: a step of an update route leaves every row of every table with its id
\* and createdAt; PUT /api/config, which inserts when it found no row, leaves
\* every row that was there with its id.
C8_UpdatesKeepIdAndStamp ==
    [][UpdateStep =>
         /\ \A t \in Stamped : IdStamps(TableOf(t)') = IdStamps(TableOf(t))
         /\ Ids(users') = Ids(users)
         /\ Ids(siteConfig) \subseteq Ids(siteConfig')
         /\ Len(siteConfig') = Len(siteConfig) => IdsOf(siteConfig') = IdsOf(siteConfig)]_vars

\* An update, after the clock moved on, from a body that carries id and createdAt.
C8_Witness ==
    /\ res.route = "PUT /projects/:id" /\ res.status = 200
    /\ res.body[1].title = "B"
    /\ res.body[1].createdAt < now
    /\ res.body[1] \in Range(projects)

\* C9: POST /api/messages stores the message unread; POST
\* /api/messages/:id/replies stores the reply under the id of the path, and
\* from the admin when the body holds the text alone; GET
\* /api/messages/:id/replies returns the replies of that message, all of
\* them and no other, each once, createdAt never decreasing.
C9_RepliesOfTheMessage ==
    [][/\ \A raw \in MessageBodies :
            (InsertMessageValid(raw) /\ PostMessage(raw, TRUE)) =>
               /\ Len(messages') = Len(messages) + 1
               /\ messages'[Len(messages')].isRead = FALSE
               /\ res'.body = <<messages'[Len(messages')]>>
       /\ \A id \in MessageIds, raw \in ReplyBodies :
            (PostMessageReply(id, raw, TRUE) /\ messageReplies' # messageReplies) =>
               /\ messageReplies'[Len(messageReplies')].messageId = id
               /\ raw.isFromAdmin = Absent => messageReplies'[Len(messageReplies')].isFromAdmin = TRUE
               /\ res'.body = <<messageReplies'[Len(messageReplies')]>>
       /\ \A id \in MessageIds :
            GetMessageReplies(id, TRUE) =>
               /\ Range(res'.body) = {r \in Range(messageReplies) : r.messageId = id}
               /\ Distinct(res'.body)
               /\ Sorted(res'.body)]_vars

\* Two replies of one message listed, one of them by its text alone.
C9_Witness ==
    /\ res.route = "GET /messages/:id/replies" /\ res.status = 200
    /\ Len(res.body) = 2
    /\ res.body[1].isFromAdmin # res.body[2].isFromAdmin
    /\ \E i \in 1..Len(messages) : ~messages[i].isRead /\ messages[i].message = "B"

\* C10 (as claimed): GET /api/config on an empty table creates the row and
\* returns it.
C10_ReadCreatesTheRow ==
    [][\A found \in getSiteConfig :
         (siteConfig = <<>> /\ GetConfig(TRUE, found)) =>
            (Len(siteConfig') = 1 /\ res'.body = siteConfig')]_vars

\* C10 (amended): GET /api/config never creates the row: it leaves the table
\* as it is and, when the table is empty, answers 200 with no configuration;
\* a row is created only by updateSiteConfig, from PUT /api/config or from
\* the seeding routine.
C10_ReadNeverCreates ==
    [][/\ \A up \in BOOLEAN, found \in getSiteConfig :
            GetConfig(up, found) =>
               /\ siteConfig' = siteConfig
               /\ (up /\ siteConfig = <<>>) => (res'.status = 200 /\ res'.body = <<>>)
               /\ (up /\ siteConfig # <<>>) => (res'.status = 200 /\ res'.body = found)
       /\ Len(siteConfig') > Len(siteConfig) =>
            \/ \E c \in Clients : PutConfigWrite(c, TRUE)
            \/ \E s \in Seeders : SeedUpsertWrite(s, TRUE)]_vars

\* The read of an empty table answered.
C10_Witness ==
    /\ res.route = "GET /config" /\ res.status = 200 /\ res.body = <<>>
    /\ siteConfig = <<>>

\* The first k demo rows as stored by one run into an empty table whose
\* sequence stood at `first`.
Titles(l) == [i \in 1..Len(l) |-> l[i].title]
DemoPrefix(table, demo) ==
    /\ Len(table) <= Len(demo)
    /\ Titles(table) = SubSeq(Titles(demo), 1, Len(table))
    /\ \A i \in 1..Len(table) : table[i].imageUrl = demo[i].imageUrl

\* What a step of the seeding routine does to a catalog table: nothing, or it
\* appends the next demo row to a table that holds the demo rows before it
\* and no other row.
SeedsInOrder(table, after, demo) ==
    after # table =>
        /\ DemoPrefix(table, demo) /\ Len(table) < Len(demo)
        /\ DemoPrefix(after, demo) /\ Len(after) = Len(table) + 1
        /\ SubSeq(after, 1, Len(table)) = table

\* C11: the seeding routine, run alone, inserts the default configuration
\* only into an empty site_config table and the three demo projects (demo
\* products) only into an empty projects (products) table, each check on its
\* own; a table that holds a row at its check is left as it is (the rows of
\* a run that failed half way included); a completed run leaves no table
\* empty, and a run started after a completed one changes no table.
C11_SeedsOnlyEmptyTables ==
    [][/\ siteConfig' # siteConfig =>
            /\ siteConfig = <<>>
            /\ siteConfig' = <<SiteConfigRow(DefaultConfig, nextId["siteConfig"])>>
       /\ SeedsInOrder(projects, projects', demoProjects)
       /\ SeedsInOrder(products, products', demoProducts)
       /\ \A s \in Seeders :
            /\ SeedCheckProjects(s, TRUE) =>
                 (seed'[s].pc = "createProject" <=> projects = <<>>)
            /\ SeedCheckProducts(s, TRUE) =>
                 (seed'[s].pc = "createProduct" <=> products = <<>>)
            /\ seed'[s].pc = "done" =>
                 /\ Len(siteConfig') = 1
                 /\ projects' # <<>>
                 /\ projects' = <<ClientRow>> \/ DemoPrefix(projects', demoProjects)
                 /\ products' # <<>>
                 /\ products' = <<ClientRow>> \/ DemoPrefix(products', demoProducts)
       /\ steps >= 1 => tables' = tables]_vars

\* A second run completed on a database where the first run seeded the
\* projects and left the client's product and configuration alone.
C11_Witness ==
    /\ steps >= 1
    /\ \E s \in Seeders : seed[s].pc = "done"
    /\ siteConfig = <<ClientConfig>>
    /\ Len(projects) = 3 /\ DemoPrefix(projects, demoProjects)
    /\ products = <<ClientRow>>

\* The rows of a table that hold a demo title, and those that do not.
DemoRows(table, demo) == SelectSeq(table, LAMBDA r : r.title \in Range(Titles(demo)))
ClientRows(table, demo) == SelectSeq(table, LAMBDA r : r.title \notin Range(Titles(demo)))

\* C12: seeding is not safe under interleaving.  The emptiness check and the
\* inserts are separate storage calls and the table is not looked at again:
\* once the check has passed, every demo row is inserted whatever a request
\* has stored in the table since, so that demo rows end up in a table that
\* holds a client's row (the state C12_Witness reaches).
C12_SeedingIgnoresLaterRows ==
    [][\A s \in Seeders :
         /\ SeedCreateProject(s, TRUE) =>
              /\ projects' = Append(projects, CatalogRow(demoProjects[seed[s].i], nextId["projects"], now))
              /\ ClientRows(projects', demoProjects) = ClientRows(projects, demoProjects)
         /\ SeedCreateProduct(s, TRUE) =>
              /\ products' = Append(products, CatalogRow(demoProducts[seed[s].i], nextId["products"], now))
              /\ ClientRows(products', demoProducts) = ClientRows(products, demoProducts)]_vars

\* The three demo projects stored in a table where a client's project,
\* created after the emptiness check, lies before them.
C12_Witness ==
    /\ Len(DemoRows(projects, demoProjects)) = 3
    /\ ClientRows(projects, demoProjects) # <<>>
    /\ \E i, j \in 1..Len(projects) :
          /\ i < j
          /\ projects[i].title \notin Range(Titles(demoProjects))
          /\ projects[j].title \in Range(Titles(demoProjects))

\* The rows of the messages table after the message `id` was marked.
Marked(id) == {[r EXCEPT !.isRead = IF r.id = id THEN TRUE ELSE @] : r \in Range(messages)}

\* C13: a message is created unread; PUT /api/messages/:id/read on a stored
\* message answers 200, sets isRead of that message and changes no other
\* field and no other message; marking a message that is read changes no
\* row; and no step sets isRead back: a message that is read is stored and
\* read after every step.
C13_ReadStaysRead ==
    [][/\ \A raw \in MessageBodies :
            (PostMessage(raw, TRUE) /\ messages' # messages) =>
               /\ messages' = Append(messages, messages'[Len(messages')])
               /\ messages'[Len(messages')].isRead = FALSE
       /\ \A id \in MessageIds, moved \in BOOLEAN :
            (id \in Ids(messages) /\ PutMessageRead(id, TRUE, moved)) =>
               /\ res'.status = 200
               /\ Len(messages') = Len(messages)
               /\ Range(messages') = Marked(id)
               /\ (\A r \in Range(messages) : r.id = id => r.isRead)
                     => Range(messages') = Range(messages)
       /\ \A r \in Range(messages) :
            r.isRead => r \in Range(messages')]_vars

\* A message marked, with a read and an unread message stored besides the
\* marked one, and the marked one no longer at its place in the table.
C13_Witness ==
    /\ res.route = "PUT /messages/:id/read" /\ res.status = 200
    /\ Len(messages) = 3
    /\ messages[3].isRead /\ messages[3].id < messages[2].id
    /\ \E i, j \in 1..2 : messages[i].isRead /\ ~messages[j].isRead

====
